---------------------------- MODULE Spec2Model ----------------------------
(***************************************************************************)
(* Dev-notes MCP server (src/index.js): slugify, the three note handlers,  *)
(* processToolCall and main().                                             *)
(*                                                                         *)
(* A JavaScript string is modelled as a sequence of one-character strings  *)
(* (UTF-16 code units); a file's content as a sequence of bytes.  The      *)
(* fixed pieces of a template literal ("Note saved successfully: ", ...)   *)
(* are single tokens of the text they are part of.                         *)
(***************************************************************************)
EXTENDS Naturals, Sequences, FiniteSets, TLC

\* ------------------------------------------------------------------ bounds

\* Longest string the slugify specification draws its input from.
MaxLen == 4

\* Requests the transport delivers in one behaviour of the server.
MaxRequests == 3

\* ------------------------------------------------------- strings (helpers)

\* All sequences over S of length at most n.
RECURSIVE StringsUpTo(_, _)
StringsUpTo(S, n) ==
    IF n = 0 THEN {<<>>}
    ELSE LET shorter == StringsUpTo(S, n - 1)
         IN  shorter \cup {Append(s, c) : s \in {t \in shorter : Len(t) = n - 1}, c \in S}

\* Code units whose class decides what slugify does with them: an upper-case
\* and two lower-case letters, a digit, the underscore, white space, the
\* hyphen, and three characters outside [\w\s-].
SlugChars == {"A", "a", "b", "1", "_", " ", "-", "!", ".", "/"}

\* String.prototype.toLowerCase on one code unit.
LowerChar(c) == IF c = "A" THEN "a" ELSE IF c = "B" THEN "b" ELSE c

\* \w without flags: [A-Za-z0-9_].
IsWordChar(c) == c \in {"A", "B", "a", "b", "m", "d", "t", "x", "y", "1", "_"}

\* \s, which is also what trim() strips.
IsSpaceChar(c) == c \in {" ", "\t"}

toLowerCase(s) == [i \in 1..Len(s) |-> LowerChar(s[i])]

RECURSIVE trimStart(_)
trimStart(s) ==
    IF s # <<>> /\ IsSpaceChar(Head(s)) THEN trimStart(Tail(s)) ELSE s

RECURSIVE trimEnd(_)
trimEnd(s) ==
    IF s # <<>> /\ IsSpaceChar(s[Len(s)]) THEN trimEnd(SubSeq(s, 1, Len(s) - 1)) ELSE s

trim(s) == trimEnd(trimStart(s))

\* .replace(/[^\w\s-]/g, "")
RECURSIVE removeNonWord(_)
removeNonWord(s) ==
    IF s = <<>> THEN <<>>
    ELSE IF IsWordChar(Head(s)) \/ IsSpaceChar(Head(s)) \/ Head(s) = "-"
         THEN <<Head(s)>> \o removeNonWord(Tail(s))
         ELSE removeNonWord(Tail(s))

\* .replace(/\s+/g, "-"): every maximal run of white space becomes one hyphen.
RECURSIVE spacesToHyphen(_)
spacesToHyphen(s) ==
    IF s = <<>> THEN <<>>
    ELSE IF IsSpaceChar(Head(s))
         THEN <<"-">> \o spacesToHyphen(trimStart(Tail(s)))
         ELSE <<Head(s)>> \o spacesToHyphen(Tail(s))

\* .replace(/-+/g, "-"): every maximal run of hyphens becomes one hyphen.
RECURSIVE collapseHyphens(_)
collapseHyphens(s) ==
    IF s = <<>> THEN <<>>
    ELSE IF Head(s) = "-" /\ Len(s) > 1 /\ s[2] = "-"
         THEN collapseHyphens(Tail(s))
         ELSE <<Head(s)>> \o collapseHyphens(Tail(s))

\* The two replace calls in the other order (hyphens collapsed before the
\* white space is turned into hyphens).
slugifySwapped(text) ==
    spacesToHyphen(collapseHyphens(removeNonWord(trim(toLowerCase(text)))))

\* slugify without the .replace(/[^\w\s-]/g, "").
slugifyKeepingAll(text) ==
    collapseHyphens(spacesToHyphen(trim(toLowerCase(text))))

\* The chain of slugify, each call applied to the value of the call before it.
slugify(text) ==
    CHOOSE slug \in
        { collapseHyphens(hyphened) : hyphened \in
            { spacesToHyphen(kept) : kept \in
                { removeNonWord(trimmed) : trimmed \in
                    { trim(lowered) : lowered \in {toLowerCase(text)} } } } } : TRUE

\* ------------------------------------------------------------ file system

\* Code units a note's content is made of: two ASCII letters, a surrogate
\* pair (uD83D uDE00 is one astral character) and the replacement character.
HighSurrogate == "uD83D"
LowSurrogate == "uDE00"
Replacement == "uFFFD"

\* The "utf-8" encoding of writeFileSync: an ASCII code unit is one byte (named
\* here by its character), a surrogate pair four bytes, and a surrogate
\* without its partner is written as the bytes of U+FFFD.
RECURSIVE Utf8Encode(_)
Utf8Encode(s) ==
    IF s = <<>> THEN <<>>
    ELSE IF Head(s) = HighSurrogate /\ Len(s) > 1 /\ s[2] = LowSurrogate
         THEN <<"F0", "9F", "98", "80">> \o Utf8Encode(Tail(Tail(s)))
    ELSE IF Head(s) \in {HighSurrogate, LowSurrogate, Replacement}
         THEN <<"EF", "BF", "BD">> \o Utf8Encode(Tail(s))
    ELSE <<Head(s)>> \o Utf8Encode(Tail(s))

\* The "utf-8" decoding of readFileSync, on bytes Utf8Encode wrote.
RECURSIVE Utf8Decode(_)
Utf8Decode(b) ==
    IF b = <<>> THEN <<>>
    ELSE IF Head(b) = "F0" THEN <<HighSurrogate, LowSurrogate>> \o Utf8Decode(SubSeq(b, 5, Len(b)))
    ELSE IF Head(b) = "EF" THEN <<Replacement>> \o Utf8Decode(SubSeq(b, 4, Len(b)))
    ELSE <<Head(b)>> \o Utf8Decode(Tail(b))

\* The notes directory NOTES_DIR: whether it exists, and its files (name ->
\* bytes).  A path is the file's name inside NOTES_DIR.
NoFiles == [n \in {} |-> <<>>]

MdExt == <<".", "m", "d">>

existsSync(st, name) == st.dirExists /\ name \in DOMAIN st.files

\* fs.writeFileSync(filepath, content, "utf-8") with the file opened for append
\* instead of truncated.
appendFileSync(st, name, content) ==
    [st EXCEPT !.files =
        [n \in DOMAIN st.files \cup {name} |->
            IF n = name
            THEN (IF name \in DOMAIN st.files THEN st.files[name] ELSE <<>>)
                     \o Utf8Encode(content)
            ELSE st.files[n]]]

\* fs.writeFileSync(filepath, content, "utf-8"): creates or truncates.
writeFileSync(st, name, content) ==
    [st EXCEPT !.files =
        [n \in DOMAIN st.files \cup {name} |->
            IF n = name THEN Utf8Encode(content) ELSE st.files[n]]]

readFileSync(st, name) == Utf8Decode(st.files[name])

\* Every order fs.readdirSync may yield the directory's names in.
Enumerations(names) ==
    {o \in [1..Cardinality(names) -> names] : \A i, j \in DOMAIN o : i # j => o[i] # o[j]}

\* ensureNotesDir making the directory anew (emptying one that exists).
ensureNotesDirAnew(st) == [dirExists |-> TRUE, files |-> NoFiles]

ensureNotesDir(st) ==
    IF ~st.dirExists THEN [st EXCEPT !.dirExists = TRUE] ELSE st

\* The file-system call that fails during one invocation of a handler, if the
\* handler makes it ("none": every call succeeds).  "ENOSPC" is writeFileSync
\* failing after it has opened, and so truncated, the file; each of the other
\* faults is the call of that name failing before it has any effect.
\* fs.existsSync does not throw: when it fails it returns false.
FsFaults ==
    {"mkdirSync", "writeFileSync", "ENOSPC", "readdirSync", "statSync", "existsSync",
     "readFileSync"}

\* ensureNotesDir throws: the directory is absent and mkdirSync fails.
ensureNotesDirThrows(st, fault) == ~st.dirExists /\ fault = "mkdirSync"

\* The failed call a handler that got past ensureNotesDir has made without
\* noticing: existsSync(NOTES_DIR), the first call of every handler, which took
\* a failure for "absent" (mkdirSync with recursive: true then does nothing to a
\* directory that exists).
Swallowed(fault) == IF fault = "existsSync" THEN "existsSync" ELSE "none"

\* The segments of a path: what lies between its separators.
RECURSIVE segments(_, _)
segments(s, seg) ==
    IF s = <<>> THEN <<seg>>
    ELSE IF Head(s) = "/" THEN <<seg>> \o segments(Tail(s), <<>>)
    ELSE segments(Tail(s), Append(seg, Head(s)))

\* path.normalize on the segments that follow NOTES_DIR: empty segments and "."
\* are dropped, ".." takes the segment before it away -- or, when there is
\* none left, leads out of NOTES_DIR and stays.
RECURSIVE normalize(_, _)
normalize(segs, done) ==
    IF segs = <<>> THEN done
    ELSE IF Head(segs) \in {<<>>, <<".">>} THEN normalize(Tail(segs), done)
    ELSE IF Head(segs) = <<".", ".">> /\ done # <<>> /\ done[Len(done)] # <<".", ".">>
         THEN normalize(Tail(segs), SubSeq(done, 1, Len(done) - 1))
    ELSE normalize(Tail(segs), Append(done, Head(segs)))

\* path.join(NOTES_DIR, filename): the path of the file, as the segments that
\* follow NOTES_DIR.
pathJoin(filename) == normalize(segments(filename, <<>>), <<>>)

\* ---------------------------------------------------------------- handlers

TextContent(text) == [type |-> "text", text |-> text]

\* A function that throws: what it threw, in the place of what it returns.
Throw(error) == [type |-> "throw", text |-> <<error>>]

Threw(result) == result.type = "throw"

\* The value undefined, apart from every string: a token that is no code unit.
Undefined == <<"undefined">>

\* args.key, for an argument bundle that may lack the key.
Property(args, key) == IF key \in DOMAIN args THEN args[key] ELSE Undefined

\* String.prototype.endsWith
endsWith(s, suffix) ==
    Len(s) >= Len(suffix) /\ SubSeq(s, Len(s) - Len(suffix) + 1, Len(s)) = suffix

\* String.prototype.replace(pattern, "") with a string pattern: the first
\* occurrence only.
RECURSIVE removeFirst(_, _)
removeFirst(s, pattern) ==
    IF Len(s) < Len(pattern) THEN s
    ELSE IF SubSeq(s, 1, Len(pattern)) = pattern THEN SubSeq(s, Len(pattern) + 1, Len(s))
    ELSE <<Head(s)>> \o removeFirst(Tail(s), pattern)

\* .replace(/-/g, " ")
hyphensToSpaces(s) == [i \in 1..Len(s) |-> IF s[i] = "-" THEN " " ELSE s[i]]

\* Array.prototype.join("\n")
RECURSIVE joinLines(_)
joinLines(lines) ==
    IF lines = <<>> THEN <<>>
    ELSE IF Len(lines) = 1 THEN lines[1]
    ELSE lines[1] \o <<"\n">> \o joinLines(Tail(lines))

\* The display title handleListNotes derives from a file name.
listedTitle(file) == hyphensToSpaces(removeFirst(file, MdExt))

\* One line of the listing.  stat.mtime is the file system's and is not
\* modelled: its ISO date is the token "YYYY-MM-DD".
listLine(file) ==
    <<"- **">> \o listedTitle(file) \o <<"** (">> \o file \o <<") - Modified: ">>
        \o <<"YYYY-MM-DD">>

\* handleSaveNote naming the file by the raw title (slugify forgotten).
handleSaveNoteRawTitle(st, title, content, fault) ==
    LET filename == title \o MdExt
    IN  [store  |-> writeFileSync(ensureNotesDir(st), filename, content),
         result |-> TextContent(<<"Note saved successfully: ">> \o filename),
         failed |-> "none"]

\* handleSaveNote writing with the append flag.
handleSaveNoteAppending(st, title, content, fault) ==
    LET filename == slugify(title) \o MdExt
    IN  [store  |-> appendFileSync(ensureNotesDir(st), filename, content),
         result |-> TextContent(<<"Note saved successfully: ">> \o filename),
         failed |-> "none"]

\* handleSaveNote taking an absent title for the empty string
\* (slugify(title || "")).
handleSaveNoteDefaultTitle(st, title, content, fault) ==
    LET filename == slugify(IF title = Undefined THEN <<>> ELSE title) \o MdExt
    IN  [store  |-> writeFileSync(ensureNotesDir(st), filename, content),
         result |-> TextContent(<<"Note saved successfully: ">> \o filename),
         failed |-> "none"]

\* A handler yields the store it leaves, what it returns or throws, and the
\* file-system call that failed while it ran ("none": no call it made failed).
\* slugify(undefined) throws a TypeError (undefined has no toLowerCase).
handleSaveNote(st, title, content, fault) ==
    IF ensureNotesDirThrows(st, fault)
    THEN [store |-> st, result |-> Throw("EACCES"), failed |-> fault]
    ELSE LET st1 == ensureNotesDir(st)
         IN  IF title = Undefined
             THEN [store |-> st1, result |-> Throw("TypeError"), failed |-> Swallowed(fault)]
             ELSE LET filename == slugify(title) \o MdExt
                  IN  IF fault = "writeFileSync"
                      THEN [store |-> st1, result |-> Throw("EACCES"), failed |-> fault]
                      ELSE IF fault = "ENOSPC"
                      THEN [store  |-> writeFileSync(st1, filename, <<>>),
                            result |-> Throw("ENOSPC"), failed |-> fault]
                      ELSE [store  |-> writeFileSync(st1, filename, content),
                            result |-> TextContent(<<"Note saved successfully: ">>
                                                       \o filename),
                            failed |-> Swallowed(fault)]

\* handleListNotes without the .filter(endsWith(".md")).
handleListNotesNoFilter(st, readdir, fault) ==
    LET files == readdir
    IN  [store  |-> ensureNotesDir(st),
         failed |-> "none",
         result |->
            IF Len(files) = 0
            THEN TextContent(<<"No notes found in ~/dev-notes/">>)
            ELSE TextContent(<<"Available notes:\n\n">>
                     \o joinLines([i \in 1..Len(files) |-> listLine(files[i])]))]

\* handleListNotes without the files.length === 0 branch.
handleListNotesNoEmptyCase(st, readdir, fault) ==
    LET files == SelectSeq(readdir, LAMBDA file : endsWith(file, MdExt))
    IN  [store  |-> ensureNotesDir(st),
         failed |-> "none",
         result |-> TextContent(<<"Available notes:\n\n">>
                        \o joinLines([i \in 1..Len(files) |-> listLine(files[i])]))]

\* readdir: the order readdirSync yields the directory's names in.
handleListNotes(st, readdir, fault) ==
    IF ensureNotesDirThrows(st, fault)
    THEN [store |-> st, result |-> Throw("EACCES"), failed |-> fault]
    ELSE IF fault = "readdirSync"
    THEN [store |-> ensureNotesDir(st), result |-> Throw("EACCES"), failed |-> fault]
    ELSE LET files == SelectSeq(readdir, LAMBDA file : endsWith(file, MdExt))
         IN  IF Len(files) = 0
             THEN [store  |-> ensureNotesDir(st),
                   result |-> TextContent(<<"No notes found in ~/dev-notes/">>),
                   failed |-> Swallowed(fault)]
             ELSE IF fault = "statSync"
             THEN [store |-> ensureNotesDir(st), result |-> Throw("EACCES"),
                   failed |-> fault]
             ELSE [store  |-> ensureNotesDir(st),
                   result |-> TextContent(<<"Available notes:\n\n">>
                       \o joinLines([i \in 1..Len(files) |-> listLine(files[i])])),
                   failed |-> Swallowed(fault)]

\* handleReadNote reporting the title, not the file name, when the note is absent.
handleReadNoteNamesTitle(st, title, fault) ==
    LET st1 == ensureNotesDir(st)
        filename == slugify(title) \o MdExt
    IN  [store  |-> st1,
         failed |-> "none",
         result |->
            IF ~existsSync(st1, filename)
            THEN TextContent(<<"Note not found: ">> \o title)
            ELSE TextContent(readFileSync(st1, filename))]

\* handleReadNote looking the raw title up instead of its slug.
handleReadNoteRawTitle(st, title, fault) ==
    LET st1 == ensureNotesDir(st)
        filename == title \o MdExt
    IN  [store  |-> st1,
         failed |-> "none",
         result |->
            IF ~existsSync(st1, filename)
            THEN TextContent(<<"Note not found: ">> \o filename)
            ELSE TextContent(readFileSync(st1, filename))]

\* handleReadNote with a try around readFileSync, answering a failure with a
\* text.
handleReadNoteCatching(st, title, fault) ==
    IF ensureNotesDirThrows(st, fault)
    THEN [store |-> st, result |-> Throw("EACCES"), failed |-> fault]
    ELSE LET st1 == ensureNotesDir(st)
         IN  IF title = Undefined
             THEN [store |-> st1, result |-> Throw("TypeError"), failed |-> Swallowed(fault)]
             ELSE LET filename == slugify(title) \o MdExt
                  IN  IF ~existsSync(st1, filename) \/ fault = "existsSync"
                      THEN [store  |-> st1,
                            result |-> TextContent(<<"Note not found: ">> \o filename),
                            failed |-> Swallowed(fault)]
                      ELSE IF fault = "readFileSync"
                      THEN [store  |-> st1,
                            result |-> TextContent(<<"Error reading note: ">> \o filename),
                            failed |-> fault]
                      ELSE [store  |-> st1,
                            result |-> TextContent(readFileSync(st1, filename)),
                            failed |-> "none"]

handleReadNote(st, title, fault) ==
    IF ensureNotesDirThrows(st, fault)
    THEN [store |-> st, result |-> Throw("EACCES"), failed |-> fault]
    ELSE LET st1 == ensureNotesDir(st)
         IN  IF title = Undefined
             THEN [store |-> st1, result |-> Throw("TypeError"), failed |-> Swallowed(fault)]
             ELSE LET filename == slugify(title) \o MdExt
                  IN  IF ~existsSync(st1, filename) \/ fault = "existsSync"
                      THEN [store  |-> st1,
                            result |-> TextContent(<<"Note not found: ">> \o filename),
                            failed |-> Swallowed(fault)]
                      ELSE IF fault = "readFileSync"
                      THEN [store |-> st1, result |-> Throw("EACCES"), failed |-> fault]
                      ELSE [store  |-> st1,
                            result |-> TextContent(readFileSync(st1, filename)),
                            failed |-> "none"]

\* The descriptor list with list_notes left out.
ToolRegistryTwo ==
    << [name |-> "save_note",  required |-> <<"title", "content">>],
       [name |-> "read_note",  required |-> <<"title">>] >>

\* The tool descriptors of the list-tools handler, in order: name and required
\* parameters (descriptions are left out).
ToolRegistry ==
    << [name |-> "save_note",  required |-> <<"title", "content">>],
       [name |-> "list_notes", required |-> <<>>],
       [name |-> "read_note",  required |-> <<"title">>] >>

\* processToolCall: the handler the switch routes to ("none": the default
\* branch), the store it leaves, its result (what the handler threw included: no
\* branch has a try), the file-system call that failed, and whether the branch
\* returns through `return await`.
WithRoute(r, handler) ==
    [store |-> r.store, result |-> r.result, failed |-> r.failed, handler |-> handler,
     awaited |-> TRUE]

\* processToolCall whose default branch leaves the name out of its text.
processToolCallNoName(st, name, args, readdir, fault) ==
    CASE name = "save_note"  -> WithRoute(handleSaveNote(st, Property(args, "title"), Property(args, "content"), fault),
                                          "handleSaveNote")
      [] name = "list_notes" -> WithRoute(handleListNotes(st, readdir, fault), "handleListNotes")
      [] name = "read_note"  -> WithRoute(handleReadNote(st, Property(args, "title"), fault), "handleReadNote")
      [] OTHER -> [store |-> st, result |-> TextContent(<<"Unknown tool: ">>),
                   failed |-> "none", handler |-> "none", awaited |-> FALSE]

\* processToolCall with the read_note case missing from the switch.
processToolCallNoRead(st, name, args, readdir, fault) ==
    CASE name = "save_note"  -> WithRoute(handleSaveNote(st, Property(args, "title"), Property(args, "content"), fault),
                                          "handleSaveNote")
      [] name = "list_notes" -> WithRoute(handleListNotes(st, readdir, fault), "handleListNotes")
      [] OTHER -> [store |-> st, result |-> TextContent(<<"Unknown tool: ", name>>),
                   failed |-> "none", handler |-> "none", awaited |-> FALSE]

processToolCall(st, name, args, readdir, fault) ==
    CASE name = "save_note"  -> WithRoute(handleSaveNote(st, Property(args, "title"), Property(args, "content"), fault),
                                          "handleSaveNote")
      [] name = "list_notes" -> WithRoute(handleListNotes(st, readdir, fault), "handleListNotes")
      [] name = "read_note"  -> WithRoute(handleReadNote(st, Property(args, "title"), fault), "handleReadNote")
      [] OTHER -> [store |-> st, result |-> TextContent(<<"Unknown tool: ", name>>),
                   failed |-> "none", handler |-> "none", awaited |-> FALSE]

\* ------------------------------------------------------------------- state

VARIABLES
    phase,       \* "Uninitialized", "Connected", "Serving" or "Terminated"
    exitCode,    \* process.exit's status; 0 while the process runs
    stderr,      \* what console.error wrote, in order
    channel,     \* the responses written to the protocol channel, in order
    store,       \* the notes directory: [dirExists, files]
    received,    \* the requests the transport delivered; a request's id is its index
    started,     \* ids in the order their handlers ran their synchronous part
    routes,      \* id -> what processToolCall came to: handler, result, failed call
    returned,    \* id -> what the request handler's promise settled with
    microtasks,  \* the promise-job queue: << [id, step] >>, run first in first out
    readLoop,    \* the transport is still handing over messages of one chunk
    slugRun      \* the slugify specification: [text, once, twice, path, step]

vars == <<phase, exitCode, stderr, channel, store, received, started, routes,
          returned, microtasks, readLoop, slugRun>>

serverVars == <<phase, exitCode, stderr, channel, store, received, started, routes,
                returned, microtasks, readLoop>>

\* ----------------------------------------------------------------- inputs

\* Titles of the server's requests: two that differ and share the slug "a",
\* and one whose slug starts with a hyphen ("-b").
Titles == { <<"A">>, <<"a">>, <<"!", " ", "b">> }

\* Contents: plain text, and text holding a surrogate without its partner.
Contents == { <<"x">>, <<"y", HighSurrogate>> }

NoArgs == [k \in {} |-> <<>>]

CallRequest(name, args) ==
    [method |-> "tools/call", params |-> [name |-> name, arguments |-> args]]

\* The requests a client sends: calls of the three registered tools, a call of
\* a tool that is not registered ("delete_note"), and list-tools.
Requests ==
    {CallRequest("save_note", [title |-> t, content |-> c]) : t \in Titles, c \in Contents}
        \cup {CallRequest("read_note", [title |-> t]) : t \in Titles}
        \cup {CallRequest("list_notes", NoArgs), CallRequest("delete_note", NoArgs)}
        \cup {[method |-> "tools/list", params |-> NoArgs]}

\* A file of the notes directory that is no note.
ForeignFile == <<"t", ".", "t", "x", "t">>

NoRun == [text |-> <<>>, once |-> <<>>, twice |-> <<>>, path |-> <<>>, step |-> "off"]

\* -------------------------------------------------------------------- Init

\* The notes directory when the process starts: absent, or holding a file that
\* is not a note.
InitialStores ==
    { [dirExists |-> FALSE, files |-> NoFiles],
      [dirExists |-> TRUE,  files |-> (ForeignFile :> <<"x">>)] }

\* The process starts.
Init ==
    /\ phase = "Uninitialized"
    /\ exitCode = 0
    /\ stderr = <<>>
    /\ channel = <<>>
    /\ store \in InitialStores
    /\ received = <<>>
    /\ started = <<>>
    /\ routes = <<>>
    /\ returned = <<>>
    /\ microtasks = <<>>
    /\ readLoop = FALSE
    /\ slugRun = NoRun

\* ------------------------------------------------------------------ main()

\* new Server(...), the two setRequestHandler calls, new StdioServerTransport().
Construct ==
    /\ phase = "Uninitialized"
    /\ phase' = "Connected"
    /\ UNCHANGED <<exitCode, stderr, channel, store, received, started, routes,
                   returned, microtasks, readLoop, slugRun>>

\* The "started" message logged with console.log: a line on the protocol
\* channel that answers no request (id 0).
ConnectLogsToStdout ==
    /\ phase = "Connected"
    /\ phase' = "Serving"
    /\ channel' = Append(channel, [id |-> 0, result |-> "Dev Notes MCP Server started successfully"])
    /\ UNCHANGED <<exitCode, stderr, store, received, started, routes, returned,
                   microtasks, readLoop, slugRun>>

\* await server.connect(transport) resolves; console.error("... started ...").
Connect ==
    /\ phase = "Connected"
    /\ phase' = "Serving"
    /\ stderr' = Append(stderr, "Dev Notes MCP Server started successfully")
    /\ UNCHANGED <<exitCode, channel, store, received, started, routes, returned,
                   microtasks, readLoop, slugRun>>

\* main().catch logging the error and not calling process.exit(1).
StartupFailsNoExit ==
    /\ phase \in {"Uninitialized", "Connected"}
    /\ phase' = "Terminated"
    /\ stderr' = Append(stderr, "Fatal error:")
    /\ UNCHANGED <<exitCode, channel, store, received, started, routes, returned,
                   microtasks, readLoop, slugRun>>

\* main() throws or rejects before it is through: main().catch logs and exits.
StartupFails ==
    /\ phase \in {"Uninitialized", "Connected"}
    /\ phase' = "Terminated"
    /\ stderr' = Append(stderr, "Fatal error:")
    /\ exitCode' = 1
    /\ UNCHANGED <<channel, store, received, started, routes, returned, microtasks,
                   readLoop, slugRun>>

\* ------------------------------------------------------- request handling

\* The transport connected in main() hands a request to the handler registered
\* for it.  The stdio transport does so for every message of the chunk it read,
\* one after the other and before any promise job runs (readLoop); the next
\* chunk is read in a later turn of the event loop, when the job queue is
\* empty.  Nothing in main() makes a request wait for the handler of the one
\* before it.  The handler is an async function: its start is the first job
\* of the request.
\* Receive running the newest request's handler first (its start job put at
\* the front of the queue).
ReceiveNewestFirst(req) ==
    /\ phase = "Serving"
    /\ Len(received) < MaxRequests
    /\ microtasks = <<>> \/ readLoop
    /\ received' = Append(received, req)
    /\ microtasks' = <<[id |-> Len(received) + 1, step |-> "start"]>> \o microtasks
    /\ readLoop' = TRUE
    /\ UNCHANGED <<phase, exitCode, stderr, channel, store, started, routes, returned,
                   slugRun>>

Receive(req) ==
    /\ phase = "Serving"
    /\ Len(received) < MaxRequests
    /\ microtasks = <<>> \/ readLoop
    /\ received' = Append(received, req)
    /\ microtasks' = Append(microtasks, [id |-> Len(received) + 1, step |-> "start"])
    /\ readLoop' = TRUE
    /\ UNCHANGED <<phase, exitCode, stderr, channel, store, started, routes, returned,
                   slugRun>>

\* What fs.readdirSync(NOTES_DIR) may return to the handler of tool `name`; only
\* handleListNotes calls it.
ReaddirResults(st, name) ==
    IF name = "list_notes" THEN Enumerations(DOMAIN st.files) ELSE {<<>>}

\* The call-tool handler up to its await: it calls processToolCall, which runs
\* the note handler (whose file-system calls are all synchronous) and is then
\* suspended at `return await` -- or, in the default branch, has returned.
StartCallWith(faults) ==
    /\ microtasks # <<>>
    /\ Head(microtasks).step = "start"
    /\ LET id  == Head(microtasks).id
           req == received[id]
       IN  /\ req.method = "tools/call"
           /\ \E readdir \in ReaddirResults(store, req.params.name) :
                \E fault \in faults :
                \E r \in {processToolCall(store, req.params.name, req.params.arguments,
                                           readdir, fault)} :
                    /\ store' = r.store
                    /\ routes' = Append(routes, [id |-> id, handler |-> r.handler,
                                                 result |-> r.result, failed |-> r.failed])
                    /\ microtasks' = Append(Tail(microtasks),
                            [id |-> id,
                             step |-> IF r.awaited THEN "processToolCall" ELSE "handler"])
           /\ started' = Append(started, id)
    /\ readLoop' = FALSE
    /\ UNCHANGED <<phase, exitCode, stderr, channel, received, returned, slugRun>>

\* The file system works.
StartCall == StartCallWith({"none"})

\* processToolCall resumes after `return await handle...(...)` and returns (or
\* throws what the handler threw).
ResumeProcessToolCall ==
    /\ microtasks # <<>>
    /\ Head(microtasks).step = "processToolCall"
    /\ microtasks' = Append(Tail(microtasks), [id |-> Head(microtasks).id, step |-> "handler"])
    /\ readLoop' = FALSE
    /\ UNCHANGED <<phase, exitCode, stderr, channel, store, received, started, routes,
                   returned, slugRun>>

RouteOf(id) == CHOOSE r \in {routes[i] : i \in DOMAIN routes} : r.id = id

\* The handler returning the result itself, not wrapped in { content: [...] }.
SettledUnwrapped(result) ==
    IF Threw(result) THEN [error |-> result.text] ELSE result

\* What the call-tool handler's promise settles with, given what
\* processToolCall returned or threw: { content: [result] }, or the rejection
\* with what was thrown (the handler has no try either).
Settled(result) ==
    IF Threw(result) THEN [error |-> result.text] ELSE [content |-> <<result>>]

\* The call-tool handler resumes after `await processToolCall(...)` and returns
\* { content: [result] }, or throws what processToolCall threw.
ResumeHandler ==
    /\ microtasks # <<>>
    /\ Head(microtasks).step = "handler"
    /\ LET id == Head(microtasks).id
       IN  /\ returned' = Append(returned, [id |-> id, result |-> Settled(RouteOf(id).result)])
           /\ microtasks' = Append(Tail(microtasks), [id |-> id, step |-> "send"])
    /\ readLoop' = FALSE
    /\ UNCHANGED <<phase, exitCode, stderr, channel, store, received, started, routes,
                   slugRun>>

\* The list-tools handler: it has no await and returns the descriptors at once.
StartListTools ==
    /\ microtasks # <<>>
    /\ Head(microtasks).step = "start"
    /\ LET id == Head(microtasks).id
       IN  /\ received[id].method = "tools/list"
           /\ started' = Append(started, id)
           /\ returned' = Append(returned, [id |-> id, result |-> [tools |-> ToolRegistry]])
           /\ microtasks' = Append(Tail(microtasks), [id |-> id, step |-> "send"])
    /\ readLoop' = FALSE
    /\ UNCHANGED <<phase, exitCode, stderr, channel, store, received, routes, slugRun>>

ReturnOf(id) == CHOOSE r \in {returned[i] : i \in DOMAIN returned} : r.id = id

\* The value a handler returned is written to the channel as the response; a
\* handler that threw is answered with an error response.
Send ==
    /\ microtasks # <<>>
    /\ Head(microtasks).step = "send"
    /\ channel' = Append(channel, [id |-> Head(microtasks).id,
                                   result |-> ReturnOf(Head(microtasks).id).result])
    /\ microtasks' = Tail(microtasks)
    /\ readLoop' = FALSE
    /\ UNCHANGED <<phase, exitCode, stderr, store, received, started, routes, returned,
                   slugRun>>

RunMicrotask ==
    StartCall \/ ResumeProcessToolCall \/ ResumeHandler \/ StartListTools \/ Send

Next ==
    \/ Construct
    \/ Connect
    \/ StartupFails
    \/ \E req \in Requests : Receive(req)
    \/ RunMicrotask

Spec == Init /\ [][Next]_vars

\* One request for each path through the handlers: what decides the order of
\* handling and of the responses is that path (returning through `return
\* await`, through the default branch, or with no await at all), not the
\* arguments.
OrderRequests ==
    { CallRequest("save_note", [title |-> <<"a">>, content |-> <<"x">>]),
      CallRequest("read_note", [title |-> <<"a">>]),
      CallRequest("delete_note", NoArgs),
      [method |-> "tools/list", params |-> NoArgs] }

OrderNext ==
    \/ Construct
    \/ Connect
    \/ StartupFails
    \/ \E req \in OrderRequests : Receive(req)
    \/ RunMicrotask

\* The event loop runs every promise job that is queued.
OrderSpec == Init /\ [][OrderNext]_vars /\ WF_vars(RunMicrotask)

\* ------------------------------------- failing file system, missing title

\* A call of each tool, and save_note and read_note without their title.
FaultRequests ==
    { CallRequest("save_note", [title |-> <<"a">>, content |-> <<"x">>]),
      CallRequest("save_note", [content |-> <<"x">>]),
      CallRequest("read_note", [title |-> <<"a">>]),
      CallRequest("read_note", NoArgs),
      CallRequest("list_notes", NoArgs),
      CallRequest("delete_note", NoArgs) }

\* The handler runs while the file system works or while one of its calls fails.
FaultyStartCall == StartCallWith(FsFaults \cup {"none"})

FaultNext ==
    \/ Construct
    \/ Connect
    \/ StartupFails
    \/ \E req \in FaultRequests : Receive(req)
    \/ FaultyStartCall
    \/ ResumeProcessToolCall
    \/ ResumeHandler
    \/ Send

FaultSpec == Init /\ [][FaultNext]_vars

\* ------------------------------------------------ reading what was listed

\* Titles of the notes saved: one whose slug is "a-b", one whose slug starts
\* with a hyphen ("-b").
ListedSaveTitles == { <<"a", " ", "b">>, <<"!", " ", "b">> }

\* The client saves notes, lists them, and reads a note by the title the
\* listing shows for it.
ListedRequests ==
    {CallRequest("save_note", [title |-> t, content |-> <<"x">>]) : t \in ListedSaveTitles}
        \cup {CallRequest("list_notes", NoArgs)}
        \cup {CallRequest("read_note", [title |-> listedTitle(slugify(t) \o MdExt)]) :
                    t \in ListedSaveTitles}

ListedNext ==
    \/ Construct
    \/ Connect
    \/ StartupFails
    \/ \E req \in ListedRequests : Receive(req)
    \/ StartCall
    \/ ResumeProcessToolCall
    \/ ResumeHandler
    \/ Send

ListedSpec == Init /\ [][ListedNext]_vars

\* ------------------------------------------------- slugify specification

SlugInit ==
    /\ phase = "Uninitialized"
    /\ exitCode = 0
    /\ stderr = <<>>
    /\ channel = <<>>
    /\ store = [dirExists |-> FALSE, files |-> NoFiles]
    /\ received = <<>>
    /\ started = <<>>
    /\ routes = <<>>
    /\ returned = <<>>
    /\ microtasks = <<>>
    /\ readLoop = FALSE
    /\ slugRun \in {[text |-> t, once |-> <<>>, twice |-> <<>>, path |-> <<>>,
                     step |-> "input"] :
                        t \in StringsUpTo(SlugChars, MaxLen)}

\* slugify(text)
SlugifyOnce ==
    /\ slugRun.step = "input"
    /\ slugRun' = [slugRun EXCEPT !.once = slugify(slugRun.text), !.step = "once"]
    /\ UNCHANGED serverVars

\* slugify(slugify(text))
SlugifyTwice ==
    /\ slugRun.step = "once"
    /\ slugRun' = [slugRun EXCEPT !.twice = slugify(slugRun.once), !.step = "twice"]
    /\ UNCHANGED serverVars

\* path.join(NOTES_DIR, slugify(text) + ".md")
SlugFilePath ==
    /\ slugRun.step = "once"
    /\ slugRun' = [slugRun EXCEPT !.path = pathJoin(slugRun.once \o MdExt), !.step = "path"]
    /\ UNCHANGED serverVars

SlugNext == SlugifyOnce \/ SlugifyTwice \/ SlugFilePath

SlugSpec == SlugInit /\ [][SlugNext]_vars

\* ------------------------------------------------- vocabulary of the claims

IsCall(id, name) ==
    received[id].method = "tools/call" /\ received[id].params.name = name

ArgsOf(id) == received[id].params.arguments

\* What processToolCall returned for request id.
ResultOf(id) == RouteOf(id).result

Responded(id) == \E k \in DOMAIN channel : channel[k].id = id

\* The text with every surrogate that has no partner replaced by U+FFFD
\* (String.prototype.toWellFormed).
RECURSIVE Scrub(_)
Scrub(s) ==
    IF s = <<>> THEN <<>>
    ELSE IF Head(s) = HighSurrogate /\ Len(s) > 1 /\ s[2] = LowSurrogate
         THEN <<HighSurrogate, LowSurrogate>> \o Scrub(Tail(Tail(s)))
    ELSE IF Head(s) \in {HighSurrogate, LowSurrogate}
         THEN <<Replacement>> \o Scrub(Tail(s))
    ELSE <<Head(s)>> \o Scrub(Tail(s))

WellFormed(s) == Scrub(s) = s

FileOf(title) == slugify(title) \o MdExt

SavedMessage(title) == TextContent(<<"Note saved successfully: ">> \o FileOf(title))

\* started[i] is save_note(T, C) and the next request handled is read_note(T).
ReadAfterSave(i) ==
    /\ i + 1 <= Len(started)
    /\ IsCall(started[i], "save_note")
    /\ IsCall(started[i + 1], "read_note")
    /\ ArgsOf(started[i + 1]).title = ArgsOf(started[i]).title

\* ---------------------------------------------------------------------- C1

\* C1 as stated: a read_note(T) handled immediately after a save_note(T, C)
\* returns a text payload equal to C, for every content string C.
C1_RoundTripEveryString ==
    \A i \in DOMAIN started :
        ReadAfterSave(i) =>
            ResultOf(started[i + 1]) = TextContent(ArgsOf(started[i]).content)

\* C1 (amended): a read_note(T) handled immediately after a save_note(T, C)
\* returns a text payload equal to C exactly when C is well-formed UTF-16 (no
\* surrogate without its partner); otherwise it returns C with each lone
\* surrogate replaced by U+FFFD.
C1_RoundTripWellFormed ==
    \A i \in DOMAIN started :
        ReadAfterSave(i) =>
            LET C == ArgsOf(started[i]).content
            IN  IF WellFormed(C)
                THEN ResultOf(started[i + 1]) = TextContent(C)
                ELSE ResultOf(started[i + 1]) = TextContent(Scrub(C))

\* A well-formed content was saved, read back at once, and the response sent.
C1_Witness ==
    \E i \in DOMAIN started :
        /\ ReadAfterSave(i)
        /\ WellFormed(ArgsOf(started[i]).content)
        /\ Responded(started[i + 1])

\* ---------------------------------------------------------------------- C2

\* started[i], started[i+1], started[i+2] are save_note(T, C1), save_note(T, C2),
\* read_note(T).
SaveSaveRead(i) ==
    /\ i + 2 <= Len(started)
    /\ IsCall(started[i], "save_note")
    /\ IsCall(started[i + 1], "save_note")
    /\ ArgsOf(started[i + 1]).title = ArgsOf(started[i]).title
    /\ IsCall(started[i + 2], "read_note")
    /\ ArgsOf(started[i + 2]).title = ArgsOf(started[i]).title

\* C2 as stated: save_note(T, C1), save_note(T, C2), read_note(T) returns C2 and
\* nothing of C1, for all contents C1 and C2.
C2_OverwriteEveryString ==
    \A i \in DOMAIN started :
        SaveSaveRead(i) =>
            ResultOf(started[i + 2]) = TextContent(ArgsOf(started[i + 1]).content)

\* C2 (amended): save_note(T, C1), save_note(T, C2), read_note(T) returns C2
\* and nothing of C1 when C2 is well-formed UTF-16; when C2 holds a lone
\* surrogate it returns C2 with each lone surrogate replaced by U+FFFD -- and
\* still nothing of C1: the file is replaced in full.
C2_OverwriteWellFormed ==
    \A i \in DOMAIN started :
        SaveSaveRead(i) =>
            LET C2 == ArgsOf(started[i + 1]).content
            IN  IF WellFormed(C2)
                THEN ResultOf(started[i + 2]) = TextContent(C2)
                ELSE ResultOf(started[i + 2]) = TextContent(Scrub(C2))

\* A note was overwritten with a different, well-formed content and read back.
C2_Witness ==
    \E i \in DOMAIN started :
        /\ SaveSaveRead(i)
        /\ ArgsOf(started[i]).content # ArgsOf(started[i + 1]).content
        /\ WellFormed(ArgsOf(started[i + 1]).content)
        /\ Responded(started[i + 2])

\* ---------------------------------------------------------------------- C3

\* C3: slugify is idempotent: slugify(slugify(s)) = slugify(s) for every
\* string s.
C3_SlugifyIdempotent ==
    slugRun.step = "twice" => slugRun.twice = slugRun.once

\* slugify was applied twice to a text it changes into a slug that starts with
\* a hyphen and holds another one ("! a b" and the like).
C3_Witness ==
    /\ slugRun.step = "twice"
    /\ slugRun.once # slugRun.text
    /\ Len(slugRun.once) >= 3
    /\ Head(slugRun.once) = "-"
    /\ \E k \in 2..Len(slugRun.once) : slugRun.once[k] = "-"

\* ---------------------------------------------------------------------- C4

\* started[i], started[i+1] are save_note(T1, C1), save_note(T2, C2) with
\* T1 # T2 and slugify(T1) = slugify(T2).
CollidingSaves(i) ==
    /\ i + 1 <= Len(started)
    /\ IsCall(started[i], "save_note")
    /\ IsCall(started[i + 1], "save_note")
    /\ ArgsOf(started[i]).title # ArgsOf(started[i + 1]).title
    /\ slugify(ArgsOf(started[i]).title) = slugify(ArgsOf(started[i + 1]).title)

\* ... followed by read_note(T1).
CollidingSavesRead(i) ==
    /\ CollidingSaves(i)
    /\ i + 2 <= Len(started)
    /\ IsCall(started[i + 2], "read_note")
    /\ ArgsOf(started[i + 2]).title = ArgsOf(started[i]).title

NoteFiles == {n \in DOMAIN store.files : endsWith(n, MdExt)}

SavedSlugs ==
    {slugify(ArgsOf(started[k]).title) : k \in {j \in DOMAIN started : IsCall(started[j], "save_note")}}

\* Both saves return the success message for the same file name, and the store
\* holds one note file for each slug saved.
LastWriterWinsNoError(i) ==
    /\ ResultOf(started[i]) = SavedMessage(ArgsOf(started[i]).title)
    /\ ResultOf(started[i + 1]) = ResultOf(started[i])
    /\ Cardinality(NoteFiles) = Cardinality(SavedSlugs)

\* C4 as stated: for T1 # T2 with the same slug, save_note(T1, C1) then
\* save_note(T2, C2) both return the success message for the same file name,
\* the store holds a single note for that slug, and a following read_note(T1)
\* returns C2, for all contents.
C4_CollisionEveryString ==
    \A i \in DOMAIN started :
        /\ CollidingSaves(i) => LastWriterWinsNoError(i)
        /\ CollidingSavesRead(i) =>
                ResultOf(started[i + 2]) = TextContent(ArgsOf(started[i + 1]).content)

\* C4 (amended): as stated, except that the following read_note(T1) returns C2
\* exactly when C2 is well-formed UTF-16, and C2 with each lone surrogate
\* replaced by U+FFFD otherwise.
C4_CollisionWellFormed ==
    \A i \in DOMAIN started :
        /\ CollidingSaves(i) => LastWriterWinsNoError(i)
        /\ CollidingSavesRead(i) =>
                LET C2 == ArgsOf(started[i + 1]).content
                IN  IF WellFormed(C2)
                    THEN ResultOf(started[i + 2]) = TextContent(C2)
                    ELSE ResultOf(started[i + 2]) = TextContent(Scrub(C2))

\* Two titles with one slug were saved with different contents, the second
\* well-formed, and the first title read back.
C4_Witness ==
    \E i \in DOMAIN started :
        /\ CollidingSavesRead(i)
        /\ ArgsOf(started[i]).content # ArgsOf(started[i + 1]).content
        /\ WellFormed(ArgsOf(started[i + 1]).content)
        /\ Responded(started[i + 2])

\* ---------------------------------------------------------------------- C5

\* Index of the first element of s equal to tok; 0 when there is none.
IndexOf(s, tok) ==
    IF \E i \in DOMAIN s : s[i] = tok
    THEN CHOOSE i \in DOMAIN s : s[i] = tok /\ \A j \in 1..(i - 1) : s[j] # tok
    ELSE 0

\* The entries of a listing's lines, read back from its text: each line is
\* "- **" title "** (" file ") - Modified: " date, lines separated by "\n".
\* A text that is not of this form yields an entry that is not ok.
Malformed == [ok |-> FALSE, title |-> <<>>, file |-> <<>>]

RECURSIVE ParseLines(_)
ParseLines(s) ==
    IF s = <<>> THEN <<>>
    ELSE LET a == IndexOf(s, "** (")
             b == IndexOf(s, ") - Modified: ")
         IN  IF Head(s) # "- **" \/ a = 0 \/ b < a \/ b + 1 > Len(s)
             THEN <<Malformed>>
             ELSE LET rest == SubSeq(s, b + 2, Len(s))
                  IN  <<[ok |-> TRUE, title |-> SubSeq(s, 2, a - 1),
                        file |-> SubSeq(s, a + 1, b - 1)]>>
                          \o (IF rest = <<>> THEN <<>>
                              ELSE IF Head(rest) = "\n" THEN ParseLines(Tail(rest))
                              ELSE <<Malformed>>)

\* The tokens of the handlers' template literals; no code unit of a string.
TemplateTokens ==
    {"- **", "** (", ") - Modified: ", "\n", "YYYY-MM-DD", "Available notes:\n\n",
     "No notes found in ~/dev-notes/", "Note not found: ", "Note saved successfully: ",
     "Unknown tool: "}

IsString(s) == \A i \in DOMAIN s : s[i] \notin TemplateTokens

\* Slugs of the save_note calls handled before started[k].
SlugsSavedBefore(k) ==
    {slugify(ArgsOf(started[j]).title) : j \in {j \in 1..(k - 1) : IsCall(started[j], "save_note")}}

\* C5: a list_notes handled after N >= 1 notes with pairwise distinct slugs were
\* saved into a store that held no notes returns a listing of exactly N entries,
\* one per saved note, each with a title string and a file name ending in ".md".
C5_ListingComplete ==
    \A k \in DOMAIN started :
        (IsCall(started[k], "list_notes") /\ SlugsSavedBefore(k) # {}) =>
            LET text    == ResultOf(started[k]).text
                entries == ParseLines(Tail(text))
            IN  /\ ResultOf(started[k]).type = "text"
                /\ Head(text) = "Available notes:\n\n"
                /\ \A i \in DOMAIN entries : entries[i].ok
                /\ Len(entries) = Cardinality(SlugsSavedBefore(k))
                /\ {entries[i].file : i \in DOMAIN entries}
                        = {slug \o MdExt : slug \in SlugsSavedBefore(k)}
                /\ \A i \in DOMAIN entries :
                        /\ IsString(entries[i].title)
                        /\ IsString(entries[i].file)
                        /\ endsWith(entries[i].file, MdExt)

\* Two notes with different slugs were saved into a directory that also holds
\* a file that is no note, and then listed.
C5_Witness ==
    \E k \in DOMAIN started :
        /\ IsCall(started[k], "list_notes")
        /\ Cardinality(SlugsSavedBefore(k)) = 2
        /\ ForeignFile \in DOMAIN store.files
        /\ Responded(started[k])

\* ---------------------------------------------------------------------- C6

\* This step runs the handler of a call of tool `name`: the head job starts
\* request Head(microtasks).id.
HandlesCall(name) ==
    /\ microtasks # <<>>
    /\ Head(microtasks).step = "start"
    /\ IsCall(Head(microtasks).id, name)
    /\ started' = Append(started, Head(microtasks).id)

\* What processToolCall returned in this step.
NewResult == routes'[Len(routes')].result

NotFoundMessage(title) == TextContent(<<"Note not found: ">> \o FileOf(title))

\* C6: read_note(T) handled while slugify(T)+".md" is absent from the store (an
\* empty or absent directory included) returns the text "Note not found: "
\* followed by that file name, writes no note, and leaves the server Serving
\* with no exit status set.
C6_NotFoundIsNormal ==
    [][ (/\ HandlesCall("read_note")
         /\ FileOf(ArgsOf(Head(microtasks).id).title) \notin DOMAIN store.files)
        => /\ NewResult = NotFoundMessage(ArgsOf(Head(microtasks).id).title)
           /\ store'.files = store.files
           /\ phase' = "Serving"
           /\ exitCode' = 0 ]_vars

\* A note that was never saved was asked for, with a title that is not its own
\* slug, while another note existed; the not-found text was sent.
C6_Witness ==
    \E i \in DOMAIN started :
        /\ IsCall(started[i], "read_note")
        /\ ArgsOf(started[i]).title = <<"A">>
        /\ ResultOf(started[i]) = TextContent(<<"Note not found: ", "a", ".", "m", "d">>)
        /\ NoteFiles # {}
        /\ Responded(started[i])
        /\ phase = "Serving"

\* ---------------------------------------------------------------------- C7

RegistryNames == {ToolRegistry[i].name : i \in DOMAIN ToolRegistry}

IsUnknownCall(id) ==
    received[id].method = "tools/call" /\ received[id].params.name \notin RegistryNames

UnknownMessage(name) == TextContent(<<"Unknown tool: ", name>>)

\* started[i] is a call of an unknown tool and started[i+1] a save_note.
SaveAfterUnknown(i) ==
    /\ i + 1 <= Len(started)
    /\ IsUnknownCall(started[i])
    /\ IsCall(started[i + 1], "save_note")

\* started[i], started[i+1], started[i+2] are save_note(T, C), a call of an
\* unknown tool, read_note(T).
SaveUnknownRead(i) ==
    /\ i + 2 <= Len(started)
    /\ IsCall(started[i], "save_note")
    /\ IsUnknownCall(started[i + 1])
    /\ IsCall(started[i + 2], "read_note")
    /\ ArgsOf(started[i + 2]).title = ArgsOf(started[i]).title

\* C7: a call of a tool name that is not in the registry returns the text
\* "Unknown tool: <name>", leaves the note store unchanged and the server
\* Serving; a valid request that follows is handled as usual (a save_note
\* succeeds; a read_note returns what was saved before the unknown call).
C7_UnknownToolInline ==
    /\ [][ (/\ microtasks # <<>>
            /\ Head(microtasks).step = "start"
            /\ IsUnknownCall(Head(microtasks).id)
            /\ started' = Append(started, Head(microtasks).id))
           => /\ NewResult = UnknownMessage(received[Head(microtasks).id].params.name)
              /\ store' = store
              /\ phase' = "Serving"
              /\ exitCode' = 0 ]_vars
    /\ [](\A i \in DOMAIN started :
            /\ SaveAfterUnknown(i) =>
                    ResultOf(started[i + 1]) = SavedMessage(ArgsOf(started[i + 1]).title)
            /\ SaveUnknownRead(i) =>
                    ResultOf(started[i + 2]) = TextContent(Scrub(ArgsOf(started[i]).content)))

\* An unknown tool was called between a save_note and the read_note of the
\* same title, and all three responses were sent.
C7_Witness ==
    \E i \in DOMAIN started :
        /\ SaveUnknownRead(i)
        /\ ResultOf(started[i + 1]) = TextContent(<<"Unknown tool: ", "delete_note">>)
        /\ Responded(started[i]) /\ Responded(started[i + 1]) /\ Responded(started[i + 2])
        /\ phase = "Serving"

\* ---------------------------------------------------------------------- C8

IsListTools(id) == received[id].method = "tools/list"

\* C8: every list-tools response is exactly the descriptors save_note,
\* list_notes, read_note in that order, whatever was handled before; and
\* processToolCall routes a name to a handler if and only if the name is one of
\* the advertised ones, every other name getting the unknown-tool text.
C8_RegistryMatchesDispatch ==
    /\ \A k \in DOMAIN returned :
            IsListTools(returned[k].id) =>
                [i \in DOMAIN returned[k].result.tools |-> returned[k].result.tools[i].name]
                    = <<"save_note", "list_notes", "read_note">>
    /\ \A k \in DOMAIN routes :
            LET name == received[routes[k].id].params.name
            IN  /\ (routes[k].handler # "none") <=> (name \in RegistryNames)
                /\ (routes[k].handler # "none") <=>
                        (name \in {"save_note", "list_notes", "read_note"})
                /\ routes[k].handler = "none" => routes[k].result = UnknownMessage(name)

\* The tools were listed after a registered and an unregistered tool had been
\* called.
C8_Witness ==
    /\ \E k \in DOMAIN channel :
            /\ IsListTools(channel[k].id)
            /\ channel[k].id = 3
            /\ Len(channel[k].result.tools) = 3
    /\ \E k \in DOMAIN routes : routes[k].handler = "none"
    /\ \E k \in DOMAIN routes : routes[k].handler = "handleReadNote"

\* ---------------------------------------------------------------------- C9

NoNotesMessage == TextContent(<<"No notes found in ~/dev-notes/">>)

\* C9: list_notes handled while the store holds no note file -- the directory
\* absent, empty, or holding only files that are no notes -- returns the text
\* "No notes found in ~/dev-notes/", not a listing, and leaves the directory
\* existing with the files it had.
C9_EmptyStoreMessage ==
    [][ (HandlesCall("list_notes") /\ NoteFiles = {})
        => /\ NewResult = NoNotesMessage
           /\ Head(NewResult.text) # "Available notes:\n\n"
           /\ store'.dirExists
           /\ store'.files = store.files ]_vars

\* list_notes was the first request, the directory was absent and has been
\* created, and the "no notes" text was sent.
C9_Witness ==
    /\ started # <<>>
    /\ IsCall(started[1], "list_notes")
    /\ ResultOf(started[1]) = NoNotesMessage
    /\ store = [dirExists |-> TRUE, files |-> NoFiles]
    /\ Responded(started[1])

\* --------------------------------------------------------------------- C10

IsToolCall(id) == received[id].method = "tools/call"

IsRegisteredCall(id) ==
    IsToolCall(id) /\ received[id].params.name \in {"save_note", "list_notes", "read_note"}

HandlerReturned(id) == \E k \in DOMAIN returned : returned[k].id = id

\* No response precedes the return of its handler, and no request has two.
ResponsesFollowHandlers ==
    /\ \A k \in DOMAIN channel : HandlerReturned(channel[k].id)
    /\ \A j, k \in DOMAIN channel : j # k => channel[j].id # channel[k].id

InitialStore ==
    CHOOSE s \in InitialStores :
        (ForeignFile \in DOMAIN s.files) <=> (ForeignFile \in DOMAIN store.files)

\* The store after requests 1..k, each handled alone and in full, in receipt
\* order.
RECURSIVE SerialStore(_)
SerialStore(k) ==
    IF k = 0 THEN InitialStore
    ELSE IF IsToolCall(k)
         THEN processToolCall(SerialStore(k - 1), received[k].params.name, ArgsOf(k), <<>>,
                              "none").store
         ELSE SerialStore(k - 1)

\* Requests whose handler has started and whose response is not yet emitted.
InFlight == {id \in {started[i] : i \in DOMAIN started} : ~Responded(id)}

\* The store accesses of the invocations are not interleaved: handlers have
\* started in receipt order, and the store and the result of the newest
\* invocation are what its request leaves and returns when handled alone on the
\* store that the requests before it, handled one at a time, leave.
StoreAccessesSerial ==
    LET n == Len(started)
    IN  /\ started = [i \in 1..n |-> i]
        /\ IF n = 0 THEN store = InitialStore /\ routes = <<>>
           ELSE \E before \in {SerialStore(n - 1)} :
                    IF IsToolCall(n)
                    THEN /\ routes # <<>>
                         /\ routes[Len(routes)].id = n
                         /\ \E readdir \in ReaddirResults(before, received[n].params.name) :
                                \E r \in {processToolCall(before, received[n].params.name,
                                                           ArgsOf(n), readdir, "none")} :
                                    /\ store = r.store
                                    /\ routes[Len(routes)].result = r.result
                    ELSE store = before

Outcome(result) ==
    IF Threw(result) THEN "failed"
    ELSE IF result.text = <<>> THEN "read"
    ELSE CASE Head(result.text) = "Note saved successfully: " -> "saved"
           [] Head(result.text) \in {"Available notes:\n\n", "No notes found in ~/dev-notes/"}
                -> "listed"
           [] Head(result.text) = "Note not found: " -> "not found"
           [] Head(result.text) = "Unknown tool: " -> "unknown tool"
           [] OTHER -> "read"

\* The response is an envelope whose content holds exactly one item, of type
\* "text".
IsSingleTextEnvelope(response) ==
    /\ DOMAIN response = {"content"}
    /\ Len(response.content) = 1
    /\ DOMAIN response.content[1] = {"type", "text"}
    /\ response.content[1].type = "text"

\* C12: every response to an invoke-tool request, for every tool name and every
\* outcome (saved, listed, read, not found, unknown tool), is an envelope whose
\* content sequence holds exactly one item, of type "text", and that item is
\* what processToolCall returned.
C12_SingleTextItem ==
    \A k \in DOMAIN channel :
        (IsToolCall(channel[k].id)
            /\ Outcome(ResultOf(channel[k].id))
                    \in {"saved", "listed", "read", "not found", "unknown tool"})
        => /\ IsSingleTextEnvelope(channel[k].result)
           /\ channel[k].result.content[1] = ResultOf(channel[k].id)

\* The outcomes of the responses emitted to tool calls.
OutcomesEmitted ==
    {Outcome(ResultOf(channel[k].id)) : k \in {j \in DOMAIN channel : IsToolCall(channel[j].id)}}

\* A note was saved, listed and read, and the three responses emitted.
C12_Witness ==
    /\ OutcomesEmitted = {"saved", "listed", "read"}
    /\ \E k \in DOMAIN channel : Head(ResultOf(channel[k].id).text) = "Available notes:\n\n"

\* --------------------------------------------------------------------- C13

\* The steps of the lifecycle: forward along Uninitialized, Connected, Serving,
\* Terminated, a failure before Serving leading to Terminated at once.
LifecycleSteps ==
    { <<"Uninitialized", "Connected">>, <<"Connected", "Serving">>,
      <<"Serving", "Terminated">>,
      <<"Uninitialized", "Terminated">>, <<"Connected", "Terminated">> }

StartedMessage == "Dev Notes MCP Server started successfully"

Logged(message) == \E i \in DOMAIN stderr : stderr[i] = message

\* C13: the phase moves only forward along Uninitialized -> Connected ->
\* Serving -> Terminated; when construction or connection fails the fatal
\* diagnostic is written to stderr and the process exits with a non-zero status
\* without having been Serving or having logged the "started" message (which is
\* logged exactly on entering Serving); and no request is received, handled or
\* answered once Terminated.
C13_Lifecycle ==
    /\ [][phase' # phase => <<phase, phase'>> \in LifecycleSteps]_vars
    /\ [][(phase' = "Terminated" /\ phase \in {"Uninitialized", "Connected"})
            => /\ stderr' = Append(stderr, "Fatal error:")
               /\ exitCode' # 0 ]_vars
    /\ [](phase = "Terminated"
            => /\ exitCode # 0
               /\ Logged("Fatal error:")
               /\ ~Logged(StartedMessage)
               /\ received = <<>> /\ started = <<>> /\ channel = <<>>)
    /\ [](Logged(StartedMessage) <=> phase = "Serving")
    /\ [](phase \in {"Uninitialized", "Connected"} => exitCode = 0 /\ stderr = <<>>)
    /\ [][phase = "Terminated"
            => UNCHANGED <<received, started, routes, returned, channel, store>>]_vars

\* The start-up failed: the fatal diagnostic is all that was logged, and the
\* process exited with status 1 without having served.
C13_Witness ==
    /\ phase = "Terminated"
    /\ stderr = <<"Fatal error:">>
    /\ exitCode = 1
    /\ received = <<>>

\* --------------------------------------------------------------------- C14

\* Everything on the protocol channel is the response to a received request:
\* what that request's handler settled with, and one response a request.
ChannelHoldsResponsesOnly ==
    /\ \A k \in DOMAIN channel :
            /\ channel[k].id \in DOMAIN received
            /\ HandlerReturned(channel[k].id)
            /\ channel[k].result = ReturnOf(channel[k].id).result
    /\ \A j, k \in DOMAIN channel : j # k => channel[j].id # channel[k].id

\* C14: in every reachable state everything written to the protocol channel is
\* the response to a received request; the "started" message and the fatal
\* diagnostic are written to stderr only, and are all that is written there;
\* and the step that runs a tool handler writes to neither stream (the channel
\* is written only when a settled handler's response is sent).
C14_ChannelCarriesResponsesOnly ==
    /\ []ChannelHoldsResponsesOnly
    /\ [](\A i \in DOMAIN stderr : stderr[i] \in {StartedMessage, "Fatal error:"})
    /\ [][started' # started => UNCHANGED <<channel, stderr>>]_vars
    /\ [][channel' # channel
            => /\ microtasks # <<>>
               /\ Head(microtasks).step = "send"
               /\ channel' = Append(channel, [id |-> Head(microtasks).id,
                                              result |-> ReturnOf(Head(microtasks).id).result])
               /\ stderr' = stderr ]_vars
    /\ [][stderr' # stderr => channel' = channel /\ phase' # phase]_vars

\* Three requests were answered, one of them with an error response, and the
\* "started" message is all that stderr holds.
C14_Witness ==
    /\ Len(channel) = 3
    /\ stderr = <<StartedMessage>>
    /\ \E k \in DOMAIN channel : DOMAIN channel[k].result = {"error"}
    /\ \E k \in DOMAIN channel : DOMAIN channel[k].result = {"content"}

\* --------------------------------------------------------------------- C15

\* Request id calls save_note or read_note with no title in its arguments.
MissingTitle(id) ==
    /\ IsToolCall(id)
    /\ received[id].params.name \in {"save_note", "read_note"}
    /\ "title" \notin DOMAIN ArgsOf(id)

HandlerNamed(name) ==
    IF name = "save_note" THEN "handleSaveNote" ELSE "handleReadNote"

\* C15 as stated: a save_note or read_note call without title is routed to its
\* handler, and (no file-system call having failed) the handler returns a text
\* result, computed from a degenerate slug; nothing is thrown.
C15_MissingTitleYieldsText ==
    \A k \in DOMAIN routes :
        (MissingTitle(routes[k].id) /\ routes[k].result # Throw("EACCES"))
        => /\ routes[k].handler = HandlerNamed(received[routes[k].id].params.name)
           /\ routes[k].result.type = "text"

\* C15 (amended): a save_note or read_note call without title is not rejected
\* by the dispatcher, which routes it to its handler; the handler makes sure the
\* directory exists and then throws (a TypeError, from slugify(undefined))
\* before it reads or writes any file, no code catches it, and the request
\* handler's promise is rejected with it: the invocation yields no text result.
\* The server goes on Serving.
C15_MissingTitleThrows ==
    /\ [](\A k \in DOMAIN routes :
            MissingTitle(routes[k].id)
            => /\ routes[k].handler = HandlerNamed(received[routes[k].id].params.name)
               /\ routes[k].result \in {Throw("TypeError"), Throw("EACCES")})
    /\ [](\A k \in DOMAIN returned :
            MissingTitle(returned[k].id)
            => returned[k].result \in {[error |-> <<"TypeError">>], [error |-> <<"EACCES">>]})
    /\ [][ (/\ microtasks # <<>>
            /\ Head(microtasks).step = "start"
            /\ MissingTitle(Head(microtasks).id)
            /\ started' = Append(started, Head(microtasks).id))
           => /\ store'.files = store.files
              /\ (NewResult = Throw("TypeError")) <=> store'.dirExists
              /\ (NewResult = Throw("EACCES")) <=> (~store.dirExists /\ ~store'.dirExists)
              /\ phase' = "Serving"
              /\ exitCode' = 0 ]_vars

\* A save_note without title was the first request, with no directory yet: the
\* directory was created, slugify threw, and the error response was emitted.
C15_Witness ==
    /\ started # <<>>
    /\ MissingTitle(1)
    /\ IsCall(1, "save_note")
    /\ ResultOf(1) = Throw("TypeError")
    /\ store = [dirExists |-> TRUE, files |-> NoFiles]
    /\ \E k \in DOMAIN channel : channel[k] = [id |-> 1, result |-> [error |-> <<"TypeError">>]]

\* --------------------------------------------------------------------- C16

\* The file-system calls that report a failure by throwing.
ThrowingFaults == FsFaults \ {"existsSync"}

\* What the failed call throws.
ErrorOf(fault) == IF fault = "ENOSPC" THEN Throw("ENOSPC") ELSE Throw("EACCES")

\* The failure of invocation r went uncaught: processToolCall threw it, the
\* request handler's promise (once settled) is rejected with it, and the
\* response (once emitted) holds the error and no content.
PropagatesUncaught(r) ==
    /\ Threw(r.result)
    /\ HandlerReturned(r.id) => ReturnOf(r.id).result = [error |-> r.result.text]
    /\ \A k \in DOMAIN channel :
            channel[k].id = r.id => channel[k].result = [error |-> r.result.text]

\* C16 as stated: when a file-system call fails during save_note, list_notes or
\* read_note, the invocation yields no text result and the failure propagates
\* uncaught out of the call-tool request handler.
C16_EveryFailurePropagates ==
    \A k \in DOMAIN routes :
        routes[k].failed # "none" => PropagatesUncaught(routes[k])

\* C16 (amended): when mkdirSync, writeFileSync, readdirSync, statSync or
\* readFileSync fails during save_note, list_notes or read_note, no handler and
\* no dispatcher code catches it: the invocation yields no text result and the
\* failure propagates uncaught out of the call-tool request handler.  A failure
\* inside fs.existsSync is not thrown: existsSync answers false, so the handler
\* goes on as for an absent path and returns its text result (read_note: "Note
\* not found", also for a note that exists).  Nothing else makes a handler
\* throw but a missing title.
C16_ThrownFailuresPropagate ==
    \A k \in DOMAIN routes :
        /\ routes[k].failed \in ThrowingFaults
            => /\ routes[k].result = ErrorOf(routes[k].failed)
               /\ PropagatesUncaught(routes[k])
        /\ (routes[k].failed = "existsSync" /\ ~MissingTitle(routes[k].id))
            => /\ routes[k].result.type = "text"
               /\ IsCall(routes[k].id, "read_note")
                    => routes[k].result = NotFoundMessage(ArgsOf(routes[k].id).title)
        /\ Threw(routes[k].result)
            => routes[k].failed \in ThrowingFaults \/ MissingTitle(routes[k].id)

\* A note was saved; reading it failed in readFileSync and was answered with
\* an error; reading it again failed in existsSync and was answered "Note not
\* found".
C16_Witness ==
    /\ Len(routes) = 3
    /\ routes[1].result = SavedMessage(<<"a">>)
    /\ routes[2].failed = "readFileSync"
    /\ routes[3].failed = "existsSync"
    /\ routes[3].result = NotFoundMessage(<<"a">>)
    /\ \E k \in DOMAIN channel : channel[k] = [id |-> routes[2].id, result |-> [error |-> <<"EACCES">>]]
    /\ Responded(routes[3].id)

\* --------------------------------------------------------------------- C17

\* Every file but those of `names` is in the store after the step as before it,
\* with the content it had.
UnchangedBut(names) ==
    /\ DOMAIN store.files \subseteq DOMAIN store'.files
    /\ DOMAIN store'.files \subseteq DOMAIN store.files \cup names
    /\ \A n \in DOMAIN store.files \ names : store'.files[n] = store.files[n]

\* C17: the step that handles save_note(T, C) changes only the file
\* slugify(T)+".md" (which exists after it) and leaves every other file of the
\* store with its content; every other step -- the handling of read_note, of
\* list_notes and of an unknown tool included -- changes no file; and no step
\* removes a file: a note that exists in one state exists in every later one.
C17_StoreFrame ==
    /\ [][ HandlesCall("save_note")
            => /\ UnchangedBut({FileOf(ArgsOf(Head(microtasks).id).title)})
               /\ FileOf(ArgsOf(Head(microtasks).id).title) \in DOMAIN store'.files ]_vars
    /\ [][ ~HandlesCall("save_note") => UnchangedBut({}) ]_vars
    /\ [][ DOMAIN store.files \subseteq DOMAIN store'.files ]_vars

\* Two notes exist, the first of them overwritten after the second was saved,
\* and the second still has its content; the file that is no note is there too.
C17_Witness ==
    /\ Len(started) = 3
    /\ \A i \in 1..3 : IsCall(i, "save_note")
    /\ FileOf(ArgsOf(1).title) = FileOf(ArgsOf(3).title)
    /\ FileOf(ArgsOf(2).title) # FileOf(ArgsOf(1).title)
    /\ ArgsOf(3).content # ArgsOf(1).content
    /\ store.files[FileOf(ArgsOf(2).title)] = Utf8Encode(ArgsOf(2).content)
    /\ store.files[FileOf(ArgsOf(1).title)] = Utf8Encode(ArgsOf(3).content)
    /\ ForeignFile \in DOMAIN store.files

\* --------------------------------------------------------------------- C18

\* The entries of the listing that request k (a list_notes) returned; none when
\* there were no notes.
EntriesOf(k) ==
    IF ResultOf(k) = NoNotesMessage THEN <<>> ELSE ParseLines(Tail(ResultOf(k).text))

\* The content of the last save_note into `file` handled before request k.
LastSavedContent(file, k) ==
    LET saves == {i \in 1..(k - 1) : IsCall(i, "save_note") /\ FileOf(ArgsOf(i).title) = file}
    IN  ArgsOf(CHOOSE i \in saves : \A j \in saves : j <= i).content

\* C18: a read_note of the title that an earlier list_notes showed for a note
\* created by save_note(T, C) returns C and not "Note not found", whatever the
\* title T -- also when its slug begins or ends with a hyphen.
C18_ListedTitlesReadable ==
    \A j, k \in DOMAIN started :
        (j < k /\ IsCall(j, "list_notes") /\ IsCall(k, "read_note"))
        => \A e \in DOMAIN EntriesOf(j) :
                EntriesOf(j)[e].title = ArgsOf(k).title
                => /\ slugify(EntriesOf(j)[e].title) \o MdExt = EntriesOf(j)[e].file
                   /\ ResultOf(k) # NotFoundMessage(ArgsOf(k).title)
                   /\ ResultOf(k) = TextContent(LastSavedContent(EntriesOf(j)[e].file, k))

\* --------------------------------------------------------------------- C19

\* The lower-case ASCII letters, the digits, the underscore and the hyphen.
SlugAlphabet == {"a", "b", "1", "_", "-"}

\* C19: for every title string, slugify(T) consists only of lower-case ASCII
\* letters, digits, underscore and hyphen, with no two hyphens in a row (so with
\* no dot and no path separator); hence the file that save_note writes and
\* read_note looks up, path.join(NOTES_DIR, slugify(T) + ".md"), is a direct
\* child of NOTES_DIR named slugify(T) + ".md".
C19_PathContained ==
    /\ slugRun.step \in {"once", "twice", "path"}
        => /\ \A i \in DOMAIN slugRun.once : slugRun.once[i] \in SlugAlphabet
           /\ \A i \in 1..(Len(slugRun.once) - 1) :
                    ~(slugRun.once[i] = "-" /\ slugRun.once[i + 1] = "-")
    /\ slugRun.step = "path" => slugRun.path = <<slugRun.once \o MdExt>>

\* A title that is a path out of the notes directory ("../a") was slugified
\* and the file's path computed.
C19_Witness ==
    /\ slugRun.step = "path"
    /\ slugRun.text = <<".", ".", "/", "a">>
    /\ slugRun.path = << <<"a", ".", "m", "d">> >>

=============================================================================
